---- MODULE Spec2Model ----
(***************************************************************************)
(* bucket2bucket.py: a resumable multipart transfer of one source object   *)
(* (read over HTTP from presigned_url) into dest_bucket/dest_key.          *)
(*                                                                         *)
(* The script is one run; the destination keeps its multipart sessions     *)
(* between runs, so the model is a sequence of runs of the script against  *)
(* the same source and the same destination.  Sizes are counted in units   *)
(* (chunk_size is 100 MB in the script and a few units here).              *)
(***************************************************************************)
EXTENDS Integers, Sequences, FiniteSets, TLC

\* ------------------------------------------------------------------ bounds
\* chunk_size of the script, in units of the model
chunk_size == 2
\* the largest source object, in units
MaxSize == 5
\* the number of runs of the script in one behaviour
MaxRuns == 3
\* the length of the body a source sends with 416 Range Not Satisfiable
ErrBodyLen == 1

\* ------------------------------------------------- the script's constants
max_retries == 5

VARIABLES
    \* the source object behind presigned_url
    src,            \* [size, headLen]: true length, content-length of HEAD
    \* the destination store, for dest_bucket/dest_key
    uploads,        \* in-progress multipart uploads of dest_key, as listed
    destParts,      \* upload id -> (part number -> ETag)
    nextId,         \* the next UploadId the store issues
    object,         \* the completed object: [exists, length]
    \* the run's variables (module level names of the script)
    pc,
    upload_id,
    uploaded_parts, \* part number -> ETag
    part_number,
    bytes_completed,
    file_size,
    headers,        \* the Range start, or NoRange
    parts,          \* sequence of [PartNumber, ETag]
    body,           \* what is left of the response stream: [kind, off, len]
    chunk,          \* the chunk being uploaded
    retry_count,
    reported,       \* the total of the response's Content-Range, or NoTotal
    status,         \* the exit status of the run
    printed,        \* what the exit path printed
    \* what the run did (observations; the script does not read them)
    cause,          \* why the run ended
    endedAt,        \* the pc at which the run ended
    runs,           \* runs started so far
    resumedParts,   \* the part numbers the session held when the run resolved it
    uploadsBefore,  \* the in-progress uploads when the run started
    attempts,       \* part number -> upload_part calls of this run
    uploadedNow,    \* part number -> ETag of the parts this run uploaded
    delays,         \* time.sleep calls for the part being uploaded
    tries,          \* upload_part calls for the part being uploaded
    completeCalls,  \* complete_multipart_upload calls of this run
    completeArg,    \* the Parts list of the last such call
    streamOpened,   \* the run opened the source stream (line 82)
    sizeWarning,    \* the verification printed the mismatch warning
    prev            \* the previous run: [cause, endedAt, upload_id, part_number,
                    \* destParts]

vars == << src, uploads, destParts, nextId, object, pc, upload_id,
           uploaded_parts, part_number, bytes_completed, file_size, headers,
           parts, body, chunk, retry_count, status, cause, endedAt, printed, runs,
           resumedParts, uploadsBefore, attempts, uploadedNow, delays, tries,
           completeCalls, completeArg, streamOpened, sizeWarning, prev,
           reported >>

destVars == << uploads, destParts, nextId, object >>
runVars == << upload_id, uploaded_parts, part_number, bytes_completed,
              file_size, headers, parts, body, chunk, retry_count,
              reported >>
obsVars == << resumedParts, attempts, uploadedNow, delays, tries,
              completeCalls, completeArg, streamOpened, sizeWarning >>

\* ----------------------------------------------------------------- values
NoRange == -1
NoId == 0
NoChunk == [kind |-> "none", off |-> 0, len |-> 0]
NoStatus == -1
NoTotal == -1
Ids == 1..MaxRuns
EmptyMap == << >>

Min(a, b) == IF a < b THEN a ELSE b

RECURSIVE SetMax(_)
SetMax(S) ==
    LET x == CHOOSE y \in S : TRUE
    IN IF S = {x} THEN x
       ELSE LET m == SetMax(S \ {x}) IN IF x > m THEN x ELSE m

\* a dict after d[k] = v
Put(d, k, v) == [x \in (DOMAIN d) \cup {k} |-> IF x = k THEN v ELSE d[x]]

\* the number of parts of an object of `size` units: ceil(size / chunk_size)
NumParts(size) == (size + chunk_size - 1) \div chunk_size

\* sum of the lengths of a Parts list
RECURSIVE TotalLen(_)
TotalLen(ps) ==
    IF ps = << >> THEN 0 ELSE Head(ps).ETag.len + TotalLen(Tail(ps))

\* a sort with the order reversed
RECURSIVE SortedPartsDescending(_)
SortedPartsDescending(ps) ==
    IF ps = << >> THEN << >>
    ELSE LET m == CHOOSE i \in 1..Len(ps) :
                      \A j \in 1..Len(ps) :
                          ps[j].PartNumber <= ps[i].PartNumber
         IN << ps[m] >> \o SortedPartsDescending(
                [k \in 1..(Len(ps) - 1) |-> IF k < m THEN ps[k] ELSE ps[k + 1]])

\* sorted(parts, key=lambda p: p['PartNumber']): a stable insertion sort
RECURSIVE InsertPart(_, _)
InsertPart(p, ps) ==
    IF ps = << >> THEN << p >>
    ELSE IF p.PartNumber < Head(ps).PartNumber THEN << p >> \o ps
    ELSE << Head(ps) >> \o InsertPart(p, Tail(ps))

RECURSIVE SortedParts(_)
SortedParts(ps) ==
    IF ps = << >> THEN << >>
    ELSE InsertPart(ps[Len(ps)], SortedParts(SubSeq(ps, 1, Len(ps) - 1)))

\* [{'PartNumber': pn, 'ETag': etag} for pn, etag in uploaded_parts.items()]:
\* the dict keeps the order of list_parts, which is by part number
RECURSIVE PartsOf(_)
PartsOf(up) ==
    IF DOMAIN up = {} THEN << >>
    ELSE LET m == SetMax(DOMAIN up)
         IN Append(PartsOf([x \in (DOMAIN up) \ {m} |-> up[x]]),
                   [PartNumber |-> m, ETag |-> up[m]])

PartNumbers(ps) == { ps[i].PartNumber : i \in 1..Len(ps) }

\* ------------------------------------------------------------ the source
\* requests.head(presigned_url): int(headers.get('content-length', 0))
HeadContentLength == src.headLen

\* GET with Range: bytes=0-1: the total after the '/' of Content-Range.
\* A non-empty object answers 206 "bytes 0-1/size"; an empty one answers
\* 416 "bytes */0".
RangeProbeTotal == src.size

get_file_size ==
    LET fs == HeadContentLength
    IN IF fs <= 0 THEN RangeProbeTotal ELSE fs

\* The responses to the streaming GET.  Without Range: 200 and the whole
\* object.  With a Range that starts inside the object: 206, the bytes from
\* the start on, and Content-Range with the total.  With a Range that starts
\* at or after the end: 416, whose body is empty or an error document, with
\* or without Content-Range.
Responses(range) ==
    IF range = NoRange THEN
        { [body |-> [kind |-> "data", off |-> 0, len |-> src.size],
           hasContentRange |-> FALSE, total |-> 0] }
    ELSE IF range < src.size THEN
        { [body |-> [kind |-> "data", off |-> range, len |-> src.size - range],
           hasContentRange |-> TRUE, total |-> src.size] }
    ELSE
        { [body |-> [kind |-> "err", off |-> 0, len |-> n],
           hasContentRange |-> h, total |-> src.size]
          : n \in {0, ErrBodyLen}, h \in BOOLEAN }

\* ------------------------------------------------------------- the state
Sources ==
    { [size |-> s, headLen |-> h] :
        s \in 0..MaxSize, h \in 0..(MaxSize + 1) }

Init ==
    /\ src \in { x \in Sources :
                   x.headLen \in {0, x.size}
                       \cup (IF x.size > 0 THEN {x.size + 1} ELSE {}) }
    /\ uploads = << >>
    /\ destParts = [i \in Ids |-> EmptyMap]
    /\ nextId = 1
    /\ object = [exists |-> FALSE, length |-> 0]
    /\ pc = "resolve"
    /\ upload_id = NoId
    /\ uploaded_parts = EmptyMap
    /\ part_number = 1
    /\ bytes_completed = 0
    /\ file_size = 0
    /\ headers = NoRange
    /\ parts = << >>
    /\ body = NoChunk
    /\ chunk = NoChunk
    /\ retry_count = 0
    /\ reported = NoTotal
    /\ status = NoStatus
    /\ printed = {}
    /\ cause = "none"
    /\ endedAt = "none"
    /\ runs = 1
    /\ resumedParts = {}
    /\ uploadsBefore = << >>
    /\ attempts = EmptyMap
    /\ uploadedNow = EmptyMap
    /\ delays = 0
    /\ tries = 0
    /\ completeCalls = 0
    /\ completeArg = << >>
    /\ streamOpened = FALSE
    /\ sizeWarning = FALSE
    /\ prev = [cause |-> "none", endedAt |-> "none", upload_id |-> NoId,
               part_number |-> 0, destParts |-> EmptyMap]

\* lines 80-142: the statements inside the try
InTry == {"open", "stream", "upload", "sleep", "complete", "verify"}
Running == {"resolve", "sizing"} \cup InTry

\* What the exit path prints, as kinds of message: the reason, the identity
\* of the session (the Upload ID) and the instruction to run the same
\* command again.  Line 59 prints the reason alone; lines 118-119 and
\* 150-151 the reason and the instruction; lines 145-146 the pause, the
\* instruction and the Upload ID; an exception that nothing catches (module
\* level) leaves the interpreter's traceback; lines 137-141 report the
\* result of the transfer.
Messages(why, at) ==
    IF why = "Verified" THEN {"result"}
    ELSE IF why = "SizeUnknown" THEN {"reason"}
    ELSE IF at \notin InTry THEN {"reason"}
    ELSE IF why = "Interrupted" THEN {"reason", "identity", "instruction"}
    ELSE {"reason", "instruction"}

\* the run ends: sys.exit(st), the end of the script or an uncaught exception
Exit(st, why) ==
    /\ pc' = "done"
    /\ printed' = Messages(why, pc)
    /\ status' = st
    /\ cause' = why
    /\ endedAt' = pc

\* ------------------------------------------------------ the run, by line
\* the same command again
StartRun ==
    /\ pc = "done"
    /\ runs < MaxRuns
    /\ runs' = runs + 1
    /\ prev' = [cause |-> cause, endedAt |-> endedAt,
                upload_id |-> upload_id, part_number |-> part_number,
                destParts |-> IF upload_id \in Ids THEN destParts[upload_id]
                              ELSE EmptyMap]
    /\ pc' = "resolve"
    /\ upload_id' = NoId
    /\ uploaded_parts' = EmptyMap
    /\ part_number' = 1
    /\ bytes_completed' = 0
    /\ file_size' = 0
    /\ headers' = NoRange
    /\ parts' = << >>
    /\ body' = NoChunk
    /\ chunk' = NoChunk
    /\ retry_count' = 0
    /\ reported' = NoTotal
    /\ status' = NoStatus
    /\ printed' = {}
    /\ cause' = "none"
    /\ endedAt' = "none"
    /\ resumedParts' = {}
    /\ uploadsBefore' = uploads
    /\ attempts' = EmptyMap
    /\ uploadedNow' = EmptyMap
    /\ delays' = 0
    /\ tries' = 0
    /\ completeCalls' = 0
    /\ completeArg' = << >>
    /\ streamOpened' = FALSE
    /\ sizeWarning' = FALSE
    /\ UNCHANGED << src, destVars >>

\* a resolution that never finds the listed upload
FirstMatchNone(ups) == NoId

\* line 34: next((u for u in uploads if u['Key'] == dest_key), None)
FirstMatch(ups) == IF Len(ups) > 0 THEN ups[1] ELSE NoId

\* a resume that starts over at part 1
ResumePartNumberRestart(up) == 1

\* a resume at the last completed part instead of the one after it
ResumePartNumberLast(up) ==
    IF DOMAIN up # {} THEN SetMax(DOMAIN up) ELSE 1

\* line 47
ResumePartNumber(up) ==
    IF DOMAIN up # {} THEN SetMax(DOMAIN up) + 1 ELSE 1

\* an offset that counts the part about to be uploaded as completed
ResumeOffsetOffByOne(pn) == chunk_size * pn

\* line 48
ResumeOffset(pn) == chunk_size * (pn - 1)

\* lines 33-54: resume the listed upload, or create one
Resolve ==
    /\ pc = "resolve"
    /\ LET mpu == FirstMatch(uploads)
       IN IF mpu # NoId
          THEN /\ upload_id' = mpu
               /\ uploaded_parts' = destParts[mpu]
               /\ part_number' = ResumePartNumber(destParts[mpu])
               /\ bytes_completed' =
                      ResumeOffset(ResumePartNumber(destParts[mpu]))
               /\ resumedParts' = DOMAIN destParts[mpu]
               /\ UNCHANGED << uploads, nextId >>
          ELSE /\ upload_id' = nextId
               /\ uploads' = Append(uploads, nextId)
               /\ nextId' = nextId + 1
               /\ uploaded_parts' = EmptyMap
               /\ part_number' = 1
               /\ bytes_completed' = 0
               /\ resumedParts' = {}
    /\ pc' = "sizing"
    /\ UNCHANGED << src, destParts, object, file_size, headers, reported, parts, body,
                    chunk, retry_count, status, cause, endedAt, printed, runs,
                    uploadsBefore, attempts, uploadedNow, delays, tries,
                    completeCalls, completeArg, streamOpened, sizeWarning,
                    prev >>

\* lines 33-51: a destination call raises, outside the try
ResolveFail ==
    /\ pc = "resolve"
    /\ Exit(1, "Error")
    /\ UNCHANGED << src, destVars, runVars, obsVars, runs, uploadsBefore,
                    prev >>

\* a size check that lets a size of 0 through
SizeUnknownStrict(fs) == fs < 0

\* line 58
SizeUnknown(fs) == fs <= 0

\* lines 57-69: the size check, the Range header and the parts list
Sizing ==
    /\ pc = "sizing"
    /\ LET fs == get_file_size
       IN IF SizeUnknown(fs)
          THEN /\ Exit(1, "SizeUnknown")
               /\ file_size' = fs
               /\ UNCHANGED << headers, parts >>
          ELSE /\ pc' = "open"
               /\ file_size' = fs
               /\ headers' = IF bytes_completed > 0 THEN bytes_completed
                             ELSE NoRange
               /\ parts' = PartsOf(uploaded_parts)
               /\ UNCHANGED << status, cause, endedAt, printed >>
    /\ UNCHANGED << src, destVars, upload_id, uploaded_parts, part_number,
                    bytes_completed, reported, body, chunk, retry_count, obsVars, runs,
                    uploadsBefore, prev >>

\* lines 21-28: a request of get_file_size raises, outside the try
SizingFail ==
    /\ pc = "sizing"
    /\ Exit(1, "Error")
    /\ UNCHANGED << src, destVars, runVars, obsVars, runs, uploadsBefore,
                    prev >>

\* a coordinator that keeps the probed size
AdoptSizeNever(fs, r) == fs

\* lines 84-88: the total of Content-Range replaces a different file_size
AdoptSize(fs, r) ==
    IF r.hasContentRange /\ r.total # fs THEN r.total ELSE fs

\* lines 82-89: open the stream and adopt the total of Content-Range
OpenStream ==
    /\ pc = "open"
    /\ \E r \in Responses(headers) :
         /\ body' = r.body
         /\ reported' = IF r.hasContentRange THEN r.total ELSE NoTotal
         /\ file_size' = AdoptSize(file_size, r)
    /\ streamOpened' = TRUE
    /\ pc' = "stream"
    /\ UNCHANGED << src, destVars, upload_id, uploaded_parts, part_number,
                    bytes_completed, headers, parts, chunk, retry_count,
                    status, cause, endedAt, printed, runs, resumedParts, uploadsBefore,
                    attempts, uploadedNow, delays, tries, completeCalls,
                    completeArg, sizeWarning, prev >>

\* line 82: requests.get raises, inside the try
OpenFail ==
    /\ pc = "open"
    /\ Exit(1, "Error")
    /\ UNCHANGED << src, destVars, runVars, obsVars, runs, uploadsBefore,
                    prev >>

\* lines 92-100: the next chunk of iter_content, skipped or handed to the
\* retry loop; the end of the stream leads to the completion
NextChunk ==
    /\ pc = "stream"
    /\ IF body.len = 0
       THEN /\ pc' = "complete"
            /\ UNCHANGED << body, chunk, part_number, retry_count, tries,
                            delays >>
       ELSE LET n == Min(chunk_size, body.len)
                c == [kind |-> body.kind, off |-> body.off, len |-> n]
            IN /\ body' = [body EXCEPT !.off = @ + n, !.len = @ - n]
               /\ IF part_number \in DOMAIN uploaded_parts
                  THEN /\ part_number' = part_number + 1
                       /\ UNCHANGED << pc, chunk, retry_count, tries, delays >>
                  ELSE /\ chunk' = c
                       /\ retry_count' = 0
                       /\ tries' = 0
                       /\ delays' = 0
                       /\ pc' = "upload"
                       /\ UNCHANGED part_number
    /\ UNCHANGED << src, destVars, upload_id, uploaded_parts, bytes_completed, reported,
                    file_size, headers, parts, status, cause, endedAt, printed, runs,
                    resumedParts, uploadsBefore, attempts, uploadedNow,
                    completeCalls, completeArg, streamOpened, sizeWarning,
                    prev >>

\* line 92: the read of the stream raises, inside the try
ReadFail ==
    /\ pc = "stream"
    /\ body.len > 0
    /\ Exit(1, "Error")
    /\ UNCHANGED << src, destVars, runVars, obsVars, runs, uploadsBefore,
                    prev >>

Count(f, k) == IF k \in DOMAIN f THEN f[k] ELSE 0

\* lines 105-115 and 124: upload_part returns
UploadOk ==
    /\ pc = "upload"
    /\ destParts' = [destParts EXCEPT
                        ![upload_id] = Put(@, part_number, chunk)]
    /\ parts' = Append(parts, [PartNumber |-> part_number, ETag |-> chunk])
    /\ attempts' = Put(attempts, part_number, Count(attempts, part_number) + 1)
    /\ uploadedNow' = Put(uploadedNow, part_number, chunk)
    /\ tries' = tries + 1
    /\ part_number' = part_number + 1
    /\ chunk' = NoChunk
    /\ pc' = "stream"
    /\ UNCHANGED << src, uploads, nextId, object, upload_id, uploaded_parts,
                    bytes_completed, reported, file_size, headers, body, retry_count,
                    status, cause, endedAt, printed, runs, resumedParts, uploadsBefore,
                    delays, completeCalls, completeArg, streamOpened,
                    sizeWarning, prev >>

\* a retry loop that gives up one attempt late
LastAttemptLate(rc) == rc = max_retries

\* line 117
LastAttempt(rc) == rc = max_retries - 1

\* lines 116-122: upload_part raises
UploadFail ==
    /\ pc = "upload"
    /\ attempts' = Put(attempts, part_number, Count(attempts, part_number) + 1)
    /\ tries' = tries + 1
    /\ IF LastAttempt(retry_count)
       THEN /\ Exit(1, "RetryExhausted")
            /\ UNCHANGED delays
       ELSE /\ delays' = delays + 1
            /\ pc' = "sleep"
            /\ UNCHANGED << status, cause, endedAt, printed >>
    /\ UNCHANGED << src, destVars, runVars, runs, resumedParts, uploadsBefore,
                    uploadedNow, completeCalls, completeArg, streamOpened,
                    sizeWarning, prev >>

\* lines 122 and 103: time.sleep returns, the next retry_count
Wake ==
    /\ pc = "sleep"
    /\ retry_count' = retry_count + 1
    /\ pc' = "upload"
    /\ UNCHANGED << src, destVars, upload_id, uploaded_parts, part_number,
                    bytes_completed, reported, file_size, headers, parts, body, chunk,
                    status, cause, endedAt, printed, runs, obsVars, uploadsBefore,
                    prev >>

RECURSIVE Without(_, _)
Without(s, x) ==
    IF s = << >> THEN << >>
    ELSE IF Head(s) = x THEN Without(Tail(s), x)
    ELSE << Head(s) >> \o Without(Tail(s), x)

\* lines 127-132: the destination assembles the object
CompleteOk ==
    /\ pc = "complete"
    /\ completeCalls' = completeCalls + 1
    /\ completeArg' = SortedParts(parts)
    /\ uploads' = Without(uploads, upload_id)
    /\ destParts' = [destParts EXCEPT ![upload_id] = EmptyMap]
    /\ object' = [exists |-> TRUE, length |-> TotalLen(SortedParts(parts))]
    /\ pc' = "verify"
    /\ UNCHANGED << src, nextId, runVars, status, cause, endedAt, printed, runs,
                    resumedParts, uploadsBefore, attempts, uploadedNow,
                    delays, tries, streamOpened, sizeWarning, prev >>

\* a failed completion that aborts the multipart upload
CompleteFailAborting ==
    /\ pc = "complete"
    /\ completeCalls' = completeCalls + 1
    /\ completeArg' = SortedParts(parts)
    /\ Exit(1, "Error")
    /\ uploads' = Without(uploads, upload_id)
    /\ destParts' = [destParts EXCEPT ![upload_id] = EmptyMap]
    /\ UNCHANGED << src, nextId, object, runVars, runs, resumedParts,
                    uploadsBefore, attempts, uploadedNow, delays, tries,
                    streamOpened, sizeWarning, prev >>

\* lines 127-132: complete_multipart_upload raises
CompleteFail ==
    /\ pc = "complete"
    /\ completeCalls' = completeCalls + 1
    /\ completeArg' = SortedParts(parts)
    /\ Exit(1, "Error")
    /\ UNCHANGED << src, destVars, runVars, runs, resumedParts, uploadsBefore,
                    attempts, uploadedNow, delays, tries, streamOpened,
                    sizeWarning, prev >>

\* a verification that treats a size mismatch as an error
VerifyStrict ==
    /\ pc = "verify"
    /\ sizeWarning' = (object.length # file_size)
    /\ IF object.length # file_size THEN Exit(1, "SizeMismatch")
       ELSE Exit(0, "Verified")
    /\ UNCHANGED << src, destVars, runVars, runs, resumedParts, uploadsBefore,
                    attempts, uploadedNow, delays, tries, completeCalls,
                    completeArg, streamOpened, prev >>

\* lines 135-141: the size verification and the end of the script
Verify ==
    /\ pc = "verify"
    /\ sizeWarning' = (object.length # file_size)
    /\ Exit(0, "Verified")
    /\ UNCHANGED << src, destVars, runVars, runs, resumedParts, uploadsBefore,
                    attempts, uploadedNow, delays, tries, completeCalls,
                    completeArg, streamOpened, prev >>

\* line 135: head_object raises
VerifyFail ==
    /\ pc = "verify"
    /\ Exit(1, "Error")
    /\ UNCHANGED << src, destVars, runVars, obsVars, runs, uploadsBefore,
                    prev >>

\* an interruption handled like any other error
InterruptStatusAsError(at) == {1}

\* KeyboardInterrupt: lines 143-147 catch it inside the try (exit 0); at
\* module level it is uncaught, and the interpreter ends the process with a
\* failure status (1, or 130 when it dies of the signal)
InterruptStatus(at) == IF at \in InTry THEN {0} ELSE {1, 130}

\* an interruption handler that aborts the multipart upload
InterruptAborting ==
    /\ pc \in Running
    /\ \E st \in InterruptStatus(pc) : Exit(st, "Interrupted")
    /\ uploads' = Without(uploads, upload_id)
    /\ destParts' = [i \in Ids |-> IF i = upload_id THEN EmptyMap
                                   ELSE destParts[i]]
    /\ UNCHANGED << src, nextId, object, runVars, obsVars, runs,
                    uploadsBefore, prev >>

Interrupt ==
    /\ pc \in Running
    /\ \E st \in InterruptStatus(pc) : Exit(st, "Interrupted")
    /\ UNCHANGED << src, destVars, runVars, obsVars, runs, uploadsBefore,
                    prev >>

Next ==
    \/ StartRun
    \/ Resolve
    \/ ResolveFail
    \/ Sizing
    \/ SizingFail
    \/ OpenStream
    \/ OpenFail
    \/ NextChunk
    \/ ReadFail
    \/ UploadOk
    \/ UploadFail
    \/ Wake
    \/ CompleteOk
    \/ CompleteFail
    \/ Verify
    \/ VerifyFail
    \/ Interrupt

Spec == Init /\ [][Next]_vars

\* the steps of a run: every statement of the script returns, raises or is
\* interrupted, and the interpreter goes on to the next one
RunStep ==
    \/ Resolve
    \/ ResolveFail
    \/ Sizing
    \/ SizingFail
    \/ OpenStream
    \/ OpenFail
    \/ NextChunk
    \/ ReadFail
    \/ UploadOk
    \/ UploadFail
    \/ Wake
    \/ CompleteOk
    \/ CompleteFail
    \/ Verify
    \/ VerifyFail
    \/ Interrupt

\* the sources of the liveness check: an empty object and one of two parts
\* (a full chunk and a shorter last one), HEAD giving no content-length
LiveInit ==
    /\ Init
    /\ src.size \in {0, chunk_size + 1}
    /\ src.headLen = 0

\* a started run keeps running to its end; nothing forces the next run
LiveSpec == LiveInit /\ [][Next]_vars /\ WF_vars(RunStep)

\* ------------------------------------------------------------ the claims
\* the number of parts of the source object
N == NumParts(src.size)

\* the run has resolved its session (lines 33-54 are behind it)
Resolved == pc # "resolve" /\ ~(pc = "done" /\ endedAt = "resolve")

\* the length the part numbered p of the source object must have
ExpectedLen(p) ==
    IF p = N /\ src.size % chunk_size # 0 THEN src.size % chunk_size
    ELSE chunk_size

\* C1: Resume idempotence.  A run that resumes a session holding the parts
\* 1..k, 0 <= k <= N, and reaches the completion call has uploaded exactly
\* the parts k+1..N and has made no upload_part call for a part in 1..k.
ResumeIdempotence ==
    LET k == Cardinality(resumedParts)
    IN (completeCalls > 0 /\ resumedParts = 1..k /\ k <= N)
       => /\ DOMAIN uploadedNow = (k + 1)..N
          /\ DOMAIN attempts = (k + 1)..N

\* C2: Part contiguity.  Whenever the completion operation is called, the
\* part numbers of the list submitted are exactly 1..N, none twice.
PartContiguity ==
    completeCalls > 0
    => /\ PartNumbers(completeArg) = 1..N
       /\ Len(completeArg) = N

\* C3: Offset invariant.  When streaming begins the resume offset is
\* chunk_size times the number of completed parts recorded for the session
\* (0 for a new session), a multiple of chunk_size, and it is the start of
\* the Range asked of the source.
OffsetInvariant ==
    pc \in InTry
    => /\ bytes_completed = chunk_size * Cardinality(resumedParts)
       /\ bytes_completed % chunk_size = 0
       /\ headers = (IF resumedParts = {} THEN NoRange ELSE bytes_completed)

OffsetInvariantWitness ==
    /\ pc = "open"
    /\ Cardinality(resumedParts) = 2
    /\ headers = 2 * chunk_size

\* C4: Chunk size invariant.  Every part a run uploads, except part N, has
\* length chunk_size; part N has length total_size mod chunk_size, or
\* chunk_size when that is 0.
ChunkSizeInvariant ==
    \A p \in DOMAIN uploadedNow : uploadedNow[p].len = ExpectedLen(p)

\* C5: Retry bound.  A part gets at most max_retries upload attempts, the
\* run fails fatally only after the last of them, and one delay follows
\* every failed attempt but the last: none before the first attempt (delays
\* = attempts made while another attempt is due), none after the last.
RetryBound ==
    /\ tries <= max_retries
    /\ \A p \in DOMAIN attempts : attempts[p] <= max_retries
    /\ pc \in {"upload", "sleep"} => (delays = tries /\ tries < max_retries)
    /\ (pc = "stream" /\ tries > 0) => delays = tries - 1
    /\ cause = "RetryExhausted"
       => (tries = max_retries /\ delays = max_retries - 1)

RetryBoundWitness ==
    /\ cause = "RetryExhausted"
    /\ tries = max_retries
    /\ delays = max_retries - 1

\* C6: Retry exhaustion is fatal to the run.  The run ends with status 1,
\* has uploaded no later part and has not called the completion operation;
\* the session stays listed with the parts completed before the failure, and
\* the next run resolves the same session at the same part number and offset.
RetryExhaustionFatal ==
    /\ cause = "RetryExhausted"
       => /\ status = 1
          /\ completeCalls = 0
          /\ \A p \in DOMAIN uploadedNow : p < part_number
          /\ \E i \in 1..Len(uploads) : uploads[i] = upload_id
          /\ DOMAIN destParts[upload_id] = 1..(part_number - 1)
    /\ (prev.cause = "RetryExhausted" /\ Resolved)
       => /\ upload_id = prev.upload_id
          /\ uploaded_parts = prev.destParts
          /\ bytes_completed = chunk_size * (prev.part_number - 1)
          /\ pc = "sizing" => part_number = prev.part_number

RetryExhaustionFatalWitness ==
    /\ prev.cause = "RetryExhausted"
    /\ prev.part_number = 2
    /\ pc = "sizing"
    /\ part_number = 2

\* C7: An interruption while a chunk is read, uploaded or waiting in a retry
\* delay ends the run with status 0; the interrupted part number is not
\* recorded at the destination, and the session stays listed with exactly the
\* parts completed before the interruption.
InterruptionPauses ==
    (cause = "Interrupted" /\ endedAt \in {"stream", "upload", "sleep"})
    => /\ status = 0
       /\ completeCalls = 0
       /\ \E i \in 1..Len(uploads) : uploads[i] = upload_id
       /\ part_number \notin DOMAIN destParts[upload_id]
       /\ DOMAIN destParts[upload_id] = resumedParts \cup DOMAIN uploadedNow
       /\ \A p \in DOMAIN uploadedNow : destParts[upload_id][p] = uploadedNow[p]
       /\ \A p \in resumedParts \ DOMAIN uploadedNow :
              destParts[upload_id][p] = uploaded_parts[p]

InterruptionPausesWitness ==
    /\ cause = "Interrupted"
    /\ endedAt = "sleep"
    /\ part_number = 2
    /\ status = 0
    /\ DOMAIN destParts[upload_id] = {1}

\* C8: When no probe yields a positive size, the run creates no session:
\* the in-progress sessions after the run are those before it.
NoSessionWhenSizeUnknown ==
    cause = "SizeUnknown" => uploads = uploadsBefore

\* C9: When no probe yields a positive size, the run never opens the source
\* stream, uploads no part and never calls the completion operation, and the
\* size check ends it with status 1.
SizeUnknownAborts ==
    get_file_size <= 0
    => /\ pc \in {"resolve", "sizing", "done"}
       /\ ~streamOpened
       /\ attempts = EmptyMap
       /\ completeCalls = 0
       /\ (pc = "done" /\ endedAt = "sizing" /\ cause # "Interrupted")
          => status = 1
       /\ (pc = "done" /\ endedAt = "sizing"
           /\ cause \notin {"Interrupted", "Error"})
          => cause = "SizeUnknown"

SizeUnknownAbortsWitness ==
    /\ get_file_size <= 0
    /\ cause = "SizeUnknown"
    /\ status = 1
    /\ ~streamOpened

\* C10: Exit status.  A run ends with status 0 exactly when it completed the
\* transfer or was interrupted, and with status 1 exactly when it hit an
\* unrecoverable error, in whichever phase that happens.
ExitStatus ==
    pc = "done"
    => /\ status = 0 <=> cause \in {"Verified", "Interrupted"}
       /\ status = 1 <=> cause \in {"SizeUnknown", "RetryExhausted", "Error"}

\* the session of the run is listed as in progress
SessionListed == \E i \in 1..Len(uploads) : uploads[i] = upload_id

\* C11: No exit path deletes or aborts the destination session.  In a run
\* that ended without a successful completion call (aborted, interrupted,
\* cancelled during the size probe, a chunk read or a part upload) every
\* session listed before the run is still listed, the session of the run is
\* in progress, and every part it held before the run is recorded with the
\* same completion token.
SessionUntouched ==
    (pc = "done" /\ endedAt # "verify")
    => /\ \A i \in 1..Len(uploadsBefore) :
             \E j \in 1..Len(uploads) : uploads[j] = uploadsBefore[i]
       /\ Resolved
          => /\ SessionListed
             /\ \A p \in resumedParts :
                   /\ p \in DOMAIN destParts[upload_id]
                   /\ destParts[upload_id][p] = uploaded_parts[p]

SessionUntouchedWitness ==
    /\ pc = "done"
    /\ cause = "Interrupted"
    /\ endedAt = "upload"
    /\ resumedParts = {1}
    /\ SessionListed
    /\ destParts[upload_id][1] = uploaded_parts[1]

\* C12: A mismatch between the destination object's length and the tracked
\* size is a warning only: the verification that ran to its end reports the
\* transfer as complete with exit status 0, with the warning exactly when the
\* lengths differ.
MismatchIsWarning ==
    (pc = "done" /\ endedAt = "verify" /\ cause \notin {"Error", "Interrupted"})
    => /\ cause = "Verified"
       /\ status = 0
       /\ printed = {"result"}
       /\ sizeWarning = (object.length # file_size)

MismatchIsWarningWitness ==
    /\ cause = "Verified"
    /\ status = 0
    /\ sizeWarning
    /\ object.length # file_size

\* the kinds of message every fatal path is to print
FatalMessages == {"reason", "identity", "instruction"}

\* C13: Every fatal exit path (size unknown, retry exhaustion, an uncaught
\* error) prints the reason, the resumable session identity and the
\* instruction that running the same command again resumes.
FatalPathsPrintAll ==
    (pc = "done" /\ cause \in {"SizeUnknown", "RetryExhausted", "Error"})
    => FatalMessages \subseteq printed

\* the offset of the first byte the response stream carried
StreamStart == IF body.kind = "data" /\ headers # NoRange THEN headers ELSE 0

\* C14: Finalize ordering.  The completion operation is called at most once
\* per run, only when the stream is exhausted and every chunk it produced is
\* uploaded (none is in the retry loop, the uploaded lengths add up to the
\* bytes read), with the parts known to the run in strictly increasing
\* part-number order; a run that ends during streaming never calls it.
FinalizeOrdering ==
    /\ completeCalls <= 1
    /\ completeCalls > 0
       => /\ streamOpened
          /\ body.len = 0
          /\ chunk = NoChunk
          /\ TotalLen(PartsOf(uploadedNow)) = body.off - StreamStart
          /\ \A i \in 1..(Len(completeArg) - 1) :
                completeArg[i].PartNumber < completeArg[i + 1].PartNumber
          /\ PartNumbers(completeArg) = resumedParts \cup DOMAIN uploadedNow
          /\ \A i \in 1..Len(completeArg) :
                \/ ~SessionListed
                \/ completeArg[i].ETag =
                       destParts[upload_id][completeArg[i].PartNumber]
    /\ (pc = "done" /\ endedAt \in {"open", "stream", "upload", "sleep"})
       => completeCalls = 0

FinalizeOrderingWitness ==
    /\ completeCalls = 1
    /\ Len(completeArg) = 3
    /\ resumedParts = {1}
    /\ DOMAIN uploadedNow = {2, 3}

\* the chunk of the source object that part p is to hold
SourceChunk(p) ==
    [kind |-> "data", off |-> (p - 1) * chunk_size,
     len |-> Min(p * chunk_size, src.size) - (p - 1) * chunk_size]

\* C15: Part/byte alignment across resumes.  The part uploaded with number p
\* holds the source bytes from (p-1) x chunk_size up to min(p x chunk_size,
\* total_size), and the parts submitted at finalize are the parts 1, 2, ...
\* in order, whose concatenation is the source object.
PartByteAlignment ==
    /\ \A p \in DOMAIN uploadedNow :
          p <= N /\ uploadedNow[p] = SourceChunk(p)
    /\ completeCalls > 0
       => /\ \A i \in 1..Len(completeArg) :
                /\ completeArg[i].PartNumber = i
                /\ completeArg[i].ETag = SourceChunk(i)
          /\ TotalLen(completeArg) = src.size

CompletionFailureFatal ==
    /\ (pc = "done" /\ endedAt = "complete" /\ cause = "Error")
       => /\ status = 1
          /\ completeCalls = 1
          /\ SessionListed
          /\ DOMAIN destParts[upload_id] = PartNumbers(completeArg)
    /\ (prev.cause = "Error" /\ prev.endedAt = "complete" /\ Resolved)
       => /\ upload_id = prev.upload_id
          /\ uploaded_parts = prev.destParts
          /\ resumedParts = 1..N

\* the size the run tracks once the stream is open
TrackedSize ==
    IF reported # NoTotal /\ reported # get_file_size THEN reported
    ELSE get_file_size

\* C18: Size adoption.  Once the stream is open the tracked size is the total
\* the source reported when it differs from the probed size, and the probed
\* size when the source reported none or the same; the verification compares
\* the destination object's length against that tracked size.
SizeAdoption ==
    /\ pc = "open" => file_size = get_file_size
    /\ streamOpened => file_size = TrackedSize
    /\ cause = "Verified" => sizeWarning = (object.length # TrackedSize)

SizeAdoptionWitness ==
    /\ cause = "Verified"
    /\ reported # NoTotal
    /\ reported # get_file_size
    /\ file_size = reported
    /\ object.length = reported
    /\ ~sizeWarning

\* the highest part number the session held when the run resolved it
LastResumed == IF resumedParts = {} THEN 0 ELSE SetMax(resumedParts)

\* C19: The part number the skip check tests is never a key of the
\* completed-parts map: numbering starts after the highest completed part and
\* advances only with an upload, so no chunk is skipped and the first chunk a
\* run reads is uploaded as part max+1, whatever bytes the source served.
SkipNeverTaken ==
    Resolved
    => /\ part_number \notin DOMAIN uploaded_parts
       /\ part_number = LastResumed + 1 + Cardinality(DOMAIN uploadedNow)
       /\ DOMAIN uploadedNow = (LastResumed + 1)..(part_number - 1)
       /\ DOMAIN attempts \subseteq (LastResumed + 1)..part_number

SkipNeverTakenWitness ==
    /\ pc = "stream"
    /\ resumedParts = {1}
    /\ DOMAIN uploadedNow = {2}
    /\ uploadedNow[2].kind = "err"

\* a step keeps every part of every session, but for the successful
\* completion call, which ends the session of the run
KeepsParts ==
    \A i \in Ids :
        \/ /\ DOMAIN destParts[i] \subseteq DOMAIN destParts'[i]
           /\ \A j \in 1..Len(uploads) :
                 uploads[j] = i => \E k \in 1..Len(uploads') : uploads'[k] = i
        \/ /\ i = upload_id
           /\ pc = "complete"
           /\ pc' = "verify"
           /\ object'.exists

\* how a run ends when something stops it
Stopped == {"Interrupted", "RetryExhausted", "SizeUnknown", "Error"}

====
